---- MODULE Spec2Model ----
(***************************************************************************)
(* SMCHandler (sharding/handler/smc_handler.py): the client facade of the  *)
(* sharding manager contract.  The model follows _send_transaction line by *)
(* line, one action per statement that talks to the Gateway (web3.eth) or  *)
(* that can raise, for several caller threads sharing one SMCHandler.      *)
(***************************************************************************)
EXTENDS Integers, Sequences, FiniteSets, TLC

\* An optional value (a keyword argument that defaults to None, a value not
\* yet assigned): None, or Some(v).
None == <<>>
Some(v) == <<v>>
Get(o) == o[1]
\* No exception.
NoError == "NoError"

\* Threads of the host program that call into the one SMCHandler instance.
\* "t1" calls every method with every argument choice below; "t2" runs beside
\* it and submits register_notary and add_header transactions with default
\* keyword arguments.
Procs == {"t1", "t2"}
Explorers == {"t1"}

\* Total number of facade calls started in one behaviour.
MaxCalls == 2

(***************************************************************************)
(* Keys and addresses                                                      *)
(***************************************************************************)
\* The key given to __init__ and one other key a caller may pass per call.
default_privkey == "k1"
Keys == {"k1", "k2"}

\* PrivateKey.public_key.to_canonical_address(): the 20 raw bytes.
to_canonical_address(k) == <<"bytes20", k>>
\* PrivateKey.public_key.to_checksum_address(): the 0x... text form.
to_checksum_address(k) == <<"0x", k>>
\* PrivateKey.to_hex(): what signTransaction is given.
to_hex(k) == <<"hex", k>>

\* self._sender_address, set once in __init__.
sender_address == to_canonical_address(default_privkey)
\* self._privkey, set once in __init__.
private_key == default_privkey

Accounts == {to_checksum_address(k) : k \in Keys}

(***************************************************************************)
(* The contract's functions (the ABI the handler is constructed with) and  *)
(* the argument types each one takes (an argument is modelled by its      *)
(* type: what decides whether encoding succeeds).                          *)
(***************************************************************************)
TxFunctions ==
    [register_notary   |-> <<>>,
     deregister_notary |-> <<>>,
     release_notary    |-> <<>>,
     add_header        |-> <<"int", "int", "bytes">>,
     submit_vote       |-> <<"int", "int", "bytes", "int">>]

\* Facade getter -> the contract function it calls (lines 68-139).
QueryFunctions ==
    [does_notary_exist                 |-> "does_notary_exist",
     get_notary_info                   |-> "get_notary_info",
     notary_pool_len                   |-> "notary_pool_len",
     notary_pool                       |-> "notary_pool",
     empty_slots_stack_top             |-> "empty_slots_stack_top",
     empty_slots_stack                 |-> "empty_slots_stack",
     current_period_notary_sample_size |-> "current_period_notary_sample_size",
     next_period_notary_sample_size    |-> "next_period_notary_sample_size",
     notary_sample_size_updated_period |-> "notary_sample_size_updated_period",
     records_updated_period            |-> "records_updated_period",
     head_collation_period             |-> "head_collation_period",
     get_member_of_committee           |-> "get_member_of_committee",
     get_collation_chunk_root          |-> "collation_records__chunk_root",
     get_collation_proposer            |-> "collation_records__proposer",
     get_collation_is_elected          |-> "collation_records__is_elected",
     current_vote                      |-> "current_vote",
     get_vote_count                    |-> "get_vote_count",
     has_notary_voted                  |-> "has_notary_voted"]

QueryNames == DOMAIN QueryFunctions
MutatingOps == DOMAIN TxFunctions

(***************************************************************************)
(* Inputs                                                                  *)
(***************************************************************************)
\* The config dicts a handler may be constructed with: complete, or with one
\* of the three keys the handler reads missing.
FullConfig == [DEFAULT_GAS |-> 200000, GAS_PRICE |-> 1, NOTARY_DEPOSIT |-> 1000]
Configs ==
    {[k \in (DOMAIN FullConfig) \ missing |-> FullConfig[k]] :
        missing \in {{}, {"DEFAULT_GAS"}, {"GAS_PRICE"}, {"NOTARY_DEPOSIT"}}}

\* Per-call keyword arguments a caller may pass.
KeyChoices(p) == IF p \in Explorers THEN {None, Some("k2")} ELSE {None}
GasChoices(p) == IF p \in Explorers THEN {None, Some(50000)} ELSE {None}
GasPriceChoices(p) == IF p \in Explorers THEN {None, Some(7)} ELSE {None}
NonceChoices == {None, Some(1)}
OpChoices(p) ==
    IF p \in Explorers
    THEN {"register_notary", "deregister_notary", "release_notary",
          "add_header", "submit_vote"}
    ELSE {"register_notary", "add_header"}
ValueChoices == {0, 5}
\* (period, shard_id, chunk_root) and (period, shard_id, chunk_root, index)
\* as a caller may pass them: well typed, or with a chunk_root that is no bytes.
GoodHeaderArgs == <<"int", "int", "bytes">>
BadHeaderArgs == <<"int", "int", "int">>
GoodVoteArgs == <<"int", "int", "bytes", "int">>
BadVoteArgs == <<"int", "int", "int", "int">>

(***************************************************************************)
(* State                                                                   *)
(***************************************************************************)
VARIABLES
    config,     \* self._config
    txCount,    \* Gateway: account -> transaction count it reports
    sent,       \* Gateway: the raw transactions it was sent, in order
    nCalls,     \* facade calls started so far
    pc,         \* per thread: where its current call stands
    call,       \* per thread: the operation called and the arguments as passed
    frame,      \* per thread: _send_transaction's parameters/locals
    unsigned,   \* per thread: unsigned_transaction
    signed,     \* per thread: signed_transaction_dict['rawTransaction']
    result,     \* per thread: the value returned to the caller
    err,        \* per thread: the exception that reached the caller
    trace       \* per thread: the calls made out of the handler, in order

vars == <<config, txCount, sent, nCalls, pc, call, frame, unsigned, signed,
          result, err, trace>>

\* A thread that is not inside a call.
NoCall ==
    [op |-> "none", func_name |-> "none", args |-> <<>>, private_key |-> None,
     gas |-> None, gas_price |-> None, nonce |-> None, value |-> None,
     seen |-> 0]
NoFrame ==
    [func_name |-> "none", args |-> <<>>, private_key |-> None, nonce |-> None,
     chain_id |-> None, gas |-> None, value |-> 0, gas_price |-> None,
     data |-> None]

Init ==
    /\ config \in Configs
    /\ txCount = [a \in Accounts |-> 0]
    /\ sent = <<>>
    /\ nCalls = 0
    /\ pc = [p \in Procs |-> "idle"]
    /\ call = [p \in Procs |-> NoCall]
    /\ frame = [p \in Procs |-> NoFrame]
    /\ unsigned = [p \in Procs |-> None]
    /\ signed = [p \in Procs |-> None]
    /\ result = [p \in Procs |-> None]
    /\ err = [p \in Procs |-> NoError]
    /\ trace = [p \in Procs |-> <<>>]

(***************************************************************************)
(* Helpers of the actions                                                  *)
(***************************************************************************)
\* One call out of the handler, as the trace keeps it.
Event(step, arg, reply) == [step |-> step, arg |-> arg, reply |-> reply]

\* A caller thread enters a facade method: the arguments as it passed them.
Enter(p, op, func_name, args, key, gas, gas_price, nonce, value) ==
    /\ pc[p] = "idle"
    /\ nCalls < MaxCalls
    /\ nCalls' = nCalls + 1
    /\ call' = [call EXCEPT ![p] =
            [op |-> op, func_name |-> func_name, args |-> args,
             private_key |-> key, gas |-> gas, gas_price |-> gas_price,
             nonce |-> nonce, value |-> value, seen |-> Len(sent)]]

\* An exception leaves the method: nothing is returned.
Raise(p, exception) ==
    /\ pc' = [pc EXCEPT ![p] = "failed"]
    /\ err' = [err EXCEPT ![p] = exception]

\* make_call_context(sender_address=..., gas=...)
make_call_context(sender, gas) == [sender |-> sender, gas |-> gas]

\* make_transaction_context(nonce=, gas=, chain_id=, value=, gas_price=, data=)
make_transaction_context(nonce, gas, chain_id, value, gas_price, data) ==
    [nonce |-> nonce, gas |-> gas, chainId |-> chain_id, value |-> value,
     gasPrice |-> gas_price, data |-> data]

\* getattr(self.functions, func_name)(*args): the function exists in the ABI
\* and the arguments have the types it takes.
CanEncode(func_name, args) ==
    /\ func_name \in DOMAIN TxFunctions
    /\ args = TxFunctions[func_name]

\* func_instance(*args).buildTransaction(transaction=detail): the call data
\* (selector and arguments) with the fields of the context.
buildTransaction(func_name, args, detail) ==
    [to |-> "SMC", data |-> <<func_name, args>>, nonce |-> detail.nonce,
     gas |-> detail.gas, gasPrice |-> detail.gasPrice, value |-> detail.value,
     chainId |-> detail.chainId]

\* web3.eth.account.signTransaction(unsigned, key_hex)['rawTransaction']
signTransaction(unsigned_transaction, key_hex) ==
    [tx |-> unsigned_transaction, sig |-> key_hex]

\* The account a raw transaction is from, as the Gateway recovers it.
Sender(raw) == to_checksum_address(raw.sig[2])

(***************************************************************************)
(* _send_transaction, lines 141-176                                        *)
(***************************************************************************)
\* Mutant: the configured gas price wins over the gas_price argument.
send_transaction_config_first(p, func_name, args, key, nonce, chain_id, gas, value, gas_price, data) ==
    IF \/ gas = None /\ "DEFAULT_GAS" \notin DOMAIN config
       \/ gas_price = None /\ "GAS_PRICE" \notin DOMAIN config
    THEN /\ Raise(p, "KeyError")
         /\ UNCHANGED frame
    ELSE /\ frame' = [frame EXCEPT ![p] =
                [func_name |-> func_name, args |-> args,
                 private_key |-> IF key = None THEN Some(private_key) ELSE key,
                 nonce |-> nonce, chain_id |-> chain_id,
                 gas |-> IF gas = None THEN Some(config["DEFAULT_GAS"]) ELSE gas,
                 value |-> value,
                 gas_price |-> IF "GAS_PRICE" \in DOMAIN config
                               THEN Some(config["GAS_PRICE"])
                               ELSE gas_price,
                 data |-> data]]
         /\ pc' = [pc EXCEPT ![p] = "nonce"]
         /\ UNCHANGED err

\* lines 151-156: the defaults of gas, gas_price and private_key.
send_transaction(p, func_name, args, key, nonce, chain_id, gas, value, gas_price, data) ==
    IF \/ gas = None /\ "DEFAULT_GAS" \notin DOMAIN config
       \/ gas_price = None /\ "GAS_PRICE" \notin DOMAIN config
    THEN /\ Raise(p, "KeyError")
         /\ UNCHANGED frame
    ELSE /\ frame' = [frame EXCEPT ![p] =
                [func_name |-> func_name, args |-> args,
                 private_key |-> IF key = None THEN Some(private_key) ELSE key,
                 nonce |-> nonce, chain_id |-> chain_id,
                 gas |-> IF gas = None THEN Some(config["DEFAULT_GAS"]) ELSE gas,
                 value |-> value,
                 gas_price |-> IF gas_price = None THEN Some(config["GAS_PRICE"])
                               ELSE gas_price,
                 data |-> data]]
         /\ pc' = [pc EXCEPT ![p] = "nonce"]
         /\ UNCHANGED err

\* Mutant: the nonce is a count kept in the handler, never asked again.
resolve_nonce_cached(p) ==
    /\ pc[p] = "nonce"
    /\ IF frame[p].nonce # None
       THEN UNCHANGED frame
       ELSE frame' = [frame EXCEPT ![p].nonce = Some(0)]
    /\ pc' = [pc EXCEPT ![p] = "build"]
    /\ UNCHANGED <<config, txCount, sent, nCalls, call, unsigned, signed, result,
                   trace, err>>

\* Mutant: the count is asked twice (once more to "confirm" it).
resolve_nonce_twice(p) ==
    /\ pc[p] = "nonce"
    /\ IF frame[p].nonce # None
       THEN /\ pc' = [pc EXCEPT ![p] = "build"]
            /\ UNCHANGED <<frame, trace, err>>
       ELSE LET address == to_checksum_address(Get(frame[p].private_key))
                event == Event("getTransactionCount", address, Some(txCount[address]))
            IN  /\ frame' = [frame EXCEPT ![p].nonce = Some(txCount[address])]
                /\ trace' = [trace EXCEPT ![p] = Append(Append(@, event), event)]
                /\ pc' = [pc EXCEPT ![p] = "build"]
                /\ UNCHANGED err
    /\ UNCHANGED <<config, txCount, sent, nCalls, call, unsigned, signed, result>>

\* Mutant: the count is asked for the handler's own key, whichever key signs.
resolve_nonce_own_address(p) ==
    /\ pc[p] = "nonce"
    /\ IF frame[p].nonce # None
       THEN /\ pc' = [pc EXCEPT ![p] = "build"]
            /\ UNCHANGED <<frame, trace, err>>
       ELSE LET address == to_checksum_address(private_key) IN
            /\ frame' = [frame EXCEPT ![p].nonce = Some(txCount[address])]
            /\ trace' = [trace EXCEPT ![p] = Append(@,
                   Event("getTransactionCount", address, Some(txCount[address])))]
            /\ pc' = [pc EXCEPT ![p] = "build"]
            /\ UNCHANGED err
    /\ UNCHANGED <<config, txCount, sent, nCalls, call, unsigned, signed, result>>

\* lines 157-158: the nonce, from the Gateway unless the caller gave one.
resolve_nonce(p) ==
    /\ pc[p] = "nonce"
    /\ IF frame[p].nonce # None
       THEN /\ pc' = [pc EXCEPT ![p] = "build"]
            /\ UNCHANGED <<frame, trace, err>>
       ELSE LET address == to_checksum_address(Get(frame[p].private_key)) IN
            \/ /\ frame' = [frame EXCEPT ![p].nonce = Some(txCount[address])]
               /\ trace' = [trace EXCEPT ![p] = Append(@,
                      Event("getTransactionCount", address, Some(txCount[address])))]
               /\ pc' = [pc EXCEPT ![p] = "build"]
               /\ UNCHANGED err
            \/ /\ trace' = [trace EXCEPT ![p] = Append(@,
                      Event("getTransactionCount", address, None))]
               /\ Raise(p, "RemoteCallError")
               /\ UNCHANGED frame
    /\ UNCHANGED <<config, txCount, sent, nCalls, call, unsigned, signed, result>>

\* Mutant: gas and gas_price change places in the transaction context.
build_transaction_swapped(p) ==
    /\ pc[p] = "build"
    /\ LET f == frame[p]
           build_transaction_detail ==
               make_transaction_context(Get(f.nonce), Get(f.gas_price), f.chain_id,
                                        f.value, Get(f.gas), f.data)
       IN  /\ trace' = [trace EXCEPT ![p] = Append(@,
                  Event("buildTransaction", <<f.func_name, f.args>>, None))]
           /\ IF CanEncode(f.func_name, f.args)
              THEN /\ unsigned' = [unsigned EXCEPT ![p] =
                          Some(buildTransaction(f.func_name, f.args,
                                                build_transaction_detail))]
                   /\ pc' = [pc EXCEPT ![p] = "sign"]
                   /\ UNCHANGED err
              ELSE /\ Raise(p, "EncodingError")
                   /\ UNCHANGED unsigned
    /\ UNCHANGED <<config, txCount, sent, nCalls, call, frame, signed, result>>

\* Mutant: an encoding failure is swallowed and the call goes on to sign.
build_transaction_swallow(p) ==
    /\ pc[p] = "build"
    /\ LET f == frame[p]
           build_transaction_detail ==
               make_transaction_context(Get(f.nonce), Get(f.gas), f.chain_id,
                                        f.value, Get(f.gas_price), f.data)
       IN  /\ trace' = [trace EXCEPT ![p] = Append(@,
                  Event("buildTransaction", <<f.func_name, f.args>>, None))]
           /\ unsigned' = [unsigned EXCEPT ![p] =
                  Some(buildTransaction(f.func_name, f.args,
                                        build_transaction_detail))]
           /\ pc' = [pc EXCEPT ![p] = "sign"]
           /\ UNCHANGED err
    /\ UNCHANGED <<config, txCount, sent, nCalls, call, frame, signed, result>>

\* lines 159-170: the transaction context and the encoding of the call.
build_transaction(p) ==
    /\ pc[p] = "build"
    /\ LET f == frame[p]
           build_transaction_detail ==
               make_transaction_context(Get(f.nonce), Get(f.gas), f.chain_id,
                                        f.value, Get(f.gas_price), f.data)
       IN  /\ trace' = [trace EXCEPT ![p] = Append(@,
                  Event("buildTransaction", <<f.func_name, f.args>>, None))]
           /\ IF CanEncode(f.func_name, f.args)
              THEN /\ unsigned' = [unsigned EXCEPT ![p] =
                          Some(buildTransaction(f.func_name, f.args,
                                                build_transaction_detail))]
                   /\ pc' = [pc EXCEPT ![p] = "sign"]
                   /\ UNCHANGED err
              ELSE /\ Raise(p, "EncodingError")
                   /\ UNCHANGED unsigned
    /\ UNCHANGED <<config, txCount, sent, nCalls, call, frame, signed, result>>

\* lines 171-174: the signature, by the resolved private key.
sign_transaction(p) ==
    /\ pc[p] = "sign"
    /\ LET key_hex == to_hex(Get(frame[p].private_key)) IN
       /\ trace' = [trace EXCEPT ![p] = Append(@,
              Event("signTransaction", key_hex, None))]
       /\ \/ /\ signed' = [signed EXCEPT ![p] =
                    Some(signTransaction(Get(unsigned[p]), key_hex))]
             /\ pc' = [pc EXCEPT ![p] = "send"]
             /\ UNCHANGED err
          \/ /\ Raise(p, "SigningError")
             /\ UNCHANGED signed
    /\ UNCHANGED <<config, txCount, sent, nCalls, call, frame, unsigned, result>>

\* Mutant: a refused submission is sent once more before giving up.
send_raw_transaction_retry(p) ==
    /\ pc[p] = "send"
    /\ LET raw == Get(signed[p])
           from == Sender(raw)
           handle == Len(sent) + 1
           entry(accepted) ==
               [from |-> from, nonce |-> raw.tx.nonce,
                derived |-> call[p].nonce = None,
                accepted |-> accepted, handle |-> handle]
       IN  \/ /\ raw.tx.nonce >= txCount[from]
              /\ txCount' = [txCount EXCEPT ![from] = @ + 1]
              /\ sent' = Append(sent, entry(TRUE))
              /\ trace' = [trace EXCEPT ![p] = Append(@,
                     Event("sendRawTransaction", raw, Some(handle)))]
              /\ result' = [result EXCEPT ![p] = Some(handle)]
              /\ pc' = [pc EXCEPT ![p] = "done"]
              /\ UNCHANGED err
           \/ /\ sent' = Append(Append(sent, entry(FALSE)), entry(FALSE))
              /\ trace' = [trace EXCEPT ![p] = Append(Append(@,
                     Event("sendRawTransaction", raw, None)),
                     Event("sendRawTransaction", raw, None))]
              /\ Raise(p, "SubmissionError")
              /\ UNCHANGED <<txCount, result>>
    /\ UNCHANGED <<config, nCalls, call, frame, unsigned, signed>>

\* lines 175-176: the submission; the Gateway's handle is the return value.
\* The Gateway refuses a nonce below the account's count, may refuse any
\* other submission too, and counts each one it accepts.
send_raw_transaction(p) ==
    /\ pc[p] = "send"
    /\ LET raw == Get(signed[p])
           from == Sender(raw)
           handle == Len(sent) + 1
           entry(accepted) ==
               [from |-> from, nonce |-> raw.tx.nonce,
                derived |-> call[p].nonce = None,
                accepted |-> accepted, handle |-> handle]
       IN  \/ /\ raw.tx.nonce >= txCount[from]
              /\ txCount' = [txCount EXCEPT ![from] = @ + 1]
              /\ sent' = Append(sent, entry(TRUE))
              /\ trace' = [trace EXCEPT ![p] = Append(@,
                     Event("sendRawTransaction", raw, Some(handle)))]
              /\ result' = [result EXCEPT ![p] = Some(handle)]
              /\ pc' = [pc EXCEPT ![p] = "done"]
              /\ UNCHANGED err
           \/ /\ sent' = Append(sent, entry(FALSE))
              /\ trace' = [trace EXCEPT ![p] = Append(@,
                     Event("sendRawTransaction", raw, None))]
              /\ Raise(p, "SubmissionError")
              /\ UNCHANGED <<txCount, result>>
    /\ UNCHANGED <<config, nCalls, call, frame, unsigned, signed>>

(***************************************************************************)
(* The transactions, lines 181-263                                         *)
(***************************************************************************)
EnterFrame == <<config, txCount, sent, unsigned, signed, result, trace>>

\* Mutant: the deposit is not attached.
register_notary_no_value(p, key, gas, gas_price) ==
    /\ Enter(p, "register_notary", "register_notary", <<>>, key, gas, gas_price,
             None, None)
    /\ send_transaction(p, "register_notary", <<>>, key, None, None, gas, 0,
                        gas_price, None)
    /\ UNCHANGED EnterFrame

register_notary(p, key, gas, gas_price) ==
    /\ Enter(p, "register_notary", "register_notary", <<>>, key, gas, gas_price,
             None, None)
    /\ IF "NOTARY_DEPOSIT" \notin DOMAIN config
       THEN Raise(p, "KeyError") /\ UNCHANGED frame
       ELSE send_transaction(p, "register_notary", <<>>, key, None, None, gas,
                             config["NOTARY_DEPOSIT"], gas_price, None)
    /\ UNCHANGED EnterFrame

deregister_notary(p, key, gas, gas_price) ==
    /\ Enter(p, "deregister_notary", "deregister_notary", <<>>, key, gas,
             gas_price, None, None)
    /\ send_transaction(p, "deregister_notary", <<>>, key, None, None, gas, 0,
                        gas_price, None)
    /\ UNCHANGED EnterFrame

release_notary(p, key, gas, gas_price) ==
    /\ Enter(p, "release_notary", "release_notary", <<>>, key, gas, gas_price,
             None, None)
    /\ send_transaction(p, "release_notary", <<>>, key, None, None, gas, 0,
                        gas_price, None)
    /\ UNCHANGED EnterFrame

add_header(p, args, key, gas, gas_price) ==
    /\ Enter(p, "add_header", "add_header", args, key, gas, gas_price, None, None)
    /\ send_transaction(p, "add_header", args, key, None, None, gas, 0,
                        gas_price, None)
    /\ UNCHANGED EnterFrame

submit_vote(p, args, key, gas, gas_price) ==
    /\ Enter(p, "submit_vote", "submit_vote", args, key, gas, gas_price, None, None)
    /\ send_transaction(p, "submit_vote", args, key, None, None, gas, 0,
                        gas_price, None)
    /\ UNCHANGED EnterFrame

\* _send_transaction called directly, where nonce and value can be given.
direct_send_transaction(p, func_name, key, nonce, value) ==
    /\ Enter(p, "_send_transaction", func_name, <<>>, key, None, None, nonce,
             Some(value))
    /\ send_transaction(p, func_name, <<>>, key, nonce, None, None, value, None,
                        None)
    /\ UNCHANGED EnterFrame

\* A public transaction method called with nonce=...: its signature (lines
\* 181-184, 195-198, 208-211, 221-228, 242-250) takes no such keyword, so
\* Python raises TypeError before the body runs.
unexpected_nonce_keyword(p, op, nonce) ==
    /\ Enter(p, op, op, TxFunctions[op], None, None, None, nonce, None)
    /\ Raise(p, "TypeError")
    /\ UNCHANGED frame
    /\ UNCHANGED EnterFrame

(***************************************************************************)
(* The getters, lines 58-139                                               *)
(***************************************************************************)
\* self.basic_call_context, lines 58-63.
basic_call_context == make_call_context(sender_address, config["DEFAULT_GAS"])

\* Mutant: a getter asks for the account's transaction count first.
query_with_nonce_lookup(p, q) ==
    /\ Enter(p, q, QueryFunctions[q], <<>>, None, None, None, None, None)
    /\ IF "DEFAULT_GAS" \notin DOMAIN config
       THEN /\ Raise(p, "KeyError")
            /\ UNCHANGED <<trace, result>>
       ELSE /\ trace' = [trace EXCEPT ![p] = Append(Append(@,
                   Event("getTransactionCount", to_checksum_address(private_key),
                         Some(txCount[to_checksum_address(private_key)]))),
                   Event("call", <<QueryFunctions[q], basic_call_context>>,
                         Some("raw_value")))]
            /\ result' = [result EXCEPT ![p] = Some("raw_value")]
            /\ pc' = [pc EXCEPT ![p] = "done"]
            /\ UNCHANGED err
    /\ UNCHANGED <<config, txCount, sent, frame, unsigned, signed>>

\* self.functions.<function>(...).call(self.basic_call_context)
query(p, q) ==
    /\ Enter(p, q, QueryFunctions[q], <<>>, None, None, None, None, None)
    /\ IF "DEFAULT_GAS" \notin DOMAIN config
       THEN /\ Raise(p, "KeyError")
            /\ UNCHANGED <<trace, result>>
       ELSE \/ /\ trace' = [trace EXCEPT ![p] = Append(@,
                      Event("call", <<QueryFunctions[q], basic_call_context>>,
                            Some("raw_value")))]
               /\ result' = [result EXCEPT ![p] = Some("raw_value")]
               /\ pc' = [pc EXCEPT ![p] = "done"]
               /\ UNCHANGED err
            \/ /\ trace' = [trace EXCEPT ![p] = Append(@,
                      Event("call", <<QueryFunctions[q], basic_call_context>>,
                            None))]
               /\ Raise(p, "RemoteCallError")
               /\ UNCHANGED result
    /\ UNCHANGED <<config, txCount, sent, frame, unsigned, signed>>

\* The caller has its return value or exception; the thread is free again.
Return(p) ==
    /\ pc[p] \in {"done", "failed"}
    /\ pc' = [pc EXCEPT ![p] = "idle"]
    /\ call' = [call EXCEPT ![p] = NoCall]
    /\ frame' = [frame EXCEPT ![p] = NoFrame]
    /\ unsigned' = [unsigned EXCEPT ![p] = None]
    /\ signed' = [signed EXCEPT ![p] = None]
    /\ result' = [result EXCEPT ![p] = None]
    /\ err' = [err EXCEPT ![p] = NoError]
    /\ trace' = [trace EXCEPT ![p] = <<>>]
    /\ UNCHANGED <<config, txCount, sent, nCalls>>

(***************************************************************************)
(* The next-state relation                                                 *)
(***************************************************************************)
CallTransaction(p) ==
    \E key \in KeyChoices(p), gas \in GasChoices(p),
       gas_price \in GasPriceChoices(p) :
        \/ "register_notary" \in OpChoices(p)
           /\ register_notary(p, key, gas, gas_price)
        \/ "deregister_notary" \in OpChoices(p)
           /\ deregister_notary(p, key, gas, gas_price)
        \/ "release_notary" \in OpChoices(p)
           /\ release_notary(p, key, gas, gas_price)
        \/ "add_header" \in OpChoices(p)
           /\ add_header(p, GoodHeaderArgs, key, gas, gas_price)
        \/ "submit_vote" \in OpChoices(p)
           /\ submit_vote(p, GoodVoteArgs, key, gas, gas_price)

\* Arguments of the wrong type, or a function the contract does not have.
CallBadArguments(p) ==
    /\ p \in Explorers
    /\ \/ add_header(p, BadHeaderArgs, None, None, None)
       \/ submit_vote(p, BadVoteArgs, None, None, None)
       \/ direct_send_transaction(p, "no_such_function", None, None, 0)

CallDirect(p) ==
    /\ p \in Explorers
    /\ \E key \in KeyChoices(p), nonce \in NonceChoices, value \in ValueChoices :
        direct_send_transaction(p, "deregister_notary", key, nonce, value)

CallWithNonce(p) ==
    /\ p \in Explorers
    /\ \E op \in MutatingOps : unexpected_nonce_keyword(p, op, Some(1))

CallQuery(p) ==
    /\ p \in Explorers
    /\ \E q \in QueryNames : query(p, q)

Next ==
    \E p \in Procs :
        \/ CallTransaction(p)
        \/ CallBadArguments(p)
        \/ CallDirect(p)
        \/ CallWithNonce(p)
        \/ CallQuery(p)
        \/ resolve_nonce(p)
        \/ build_transaction(p)
        \/ sign_transaction(p)
        \/ send_raw_transaction(p)
        \/ Return(p)

Spec == Init /\ [][Next]_vars

(***************************************************************************)
(* Vocabulary of the properties                                            *)
(***************************************************************************)
PublicOps == DOMAIN TxFunctions
IsSubmission(p) == call[p].op \in PublicOps \cup {"_send_transaction"}
IsQuery(p) == call[p].op \in QueryNames
Finished(p) == pc[p] \in {"done", "failed"}
DerivedNonce(p) == IsSubmission(p) /\ call[p].nonce = None

\* The events of one kind in a thread's trace, and the (first) one of them.
EventsOf(p, step) == {i \in 1..Len(trace[p]) : trace[p][i].step = step}
Has(p, step) == EventsOf(p, step) # {}
The(p, step) ==
    trace[p][CHOOSE i \in EventsOf(p, step) : \A j \in EventsOf(p, step) : i <= j]
Steps(p) == [i \in 1..Len(trace[p]) |-> trace[p][i].step]
IsPrefix(s, t) == Len(s) <= Len(t) /\ \A i \in 1..Len(s) : s[i] = t[i]

\* The raw transaction a thread's current call handed to the Gateway.
Submitted(p) == The(p, "sendRawTransaction").arg
\* The key a call signs with: the keyword argument, else the handler's own.
SigningKey(p) ==
    IF call[p].private_key = None THEN default_privkey
    ELSE Get(call[p].private_key)

(***************************************************************************)
(* C1. Two submissions for the same signer, neither with an explicit      *)
(* nonce, never carry the same nonce once the earlier one was accepted by  *)
(* the Gateway (a refused nonce is not consumed and may be used again):    *)
(* each accepted nonce value is consumed by one submitted transaction.     *)
(* The handler takes no lock between getTransactionCount and               *)
(* sendRawTransaction, so two threads do read the same count.              *)
(***************************************************************************)
C1_DistinctNonces ==
    \A i, j \in 1..Len(sent) :
        (/\ i < j
         /\ sent[i].derived /\ sent[j].derived
         /\ sent[i].from = sent[j].from
         /\ sent[i].accepted)
        => sent[i].nonce # sent[j].nonce

(***************************************************************************)
(* C2. A submission with no explicit nonce carries a nonce strictly        *)
(* greater than that of every submission of the same signer, also without  *)
(* explicit nonce, that the Gateway had accepted and that had returned     *)
(* before this call started.                                               *)
(***************************************************************************)
EarlierAccepted(p, i) ==
    /\ i \in 1..call[p].seen
    /\ sent[i].derived
    /\ sent[i].accepted
    /\ sent[i].from = Sender(Submitted(p))

C2_SequentialNoncesIncrease ==
    \A p \in Procs :
        (DerivedNonce(p) /\ Has(p, "sendRawTransaction"))
        => \A i \in 1..Len(sent) :
               EarlierAccepted(p, i) => Submitted(p).tx.nonce > sent[i].nonce

C2_Witness ==
    \E p \in Procs :
        /\ DerivedNonce(p) /\ pc[p] = "done"
        /\ \E i \in 1..Len(sent) :
               EarlierAccepted(p, i) /\ Submitted(p).tx.nonce = sent[i].nonce + 1

(***************************************************************************)
(* C3. A call of a mutating operation sends at most one raw transaction    *)
(* to the Gateway; it has sent exactly one once signing succeeded and the  *)
(* call is over; and when the Gateway refuses it, the call ends with       *)
(* SubmissionError after that one submission, with nothing returned.       *)
(***************************************************************************)
C3_OneSubmissionNoRetry ==
    \A p \in Procs :
        IsSubmission(p) =>
            /\ Cardinality(EventsOf(p, "sendRawTransaction")) <= 1
            /\ (Finished(p) /\ signed[p] # None)
                   => Cardinality(EventsOf(p, "sendRawTransaction")) = 1
            /\ Has(p, "sendRawTransaction") => Submitted(p) = Get(signed[p])
            /\ (Has(p, "sendRawTransaction")
                    /\ The(p, "sendRawTransaction").reply = None)
                   => /\ pc[p] = "failed"
                      /\ err[p] = "SubmissionError"
                      /\ result[p] = None

C3_Witness ==
    \E p \in Procs :
        /\ IsSubmission(p)
        /\ pc[p] = "failed" /\ err[p] = "SubmissionError"
        /\ Cardinality(EventsOf(p, "sendRawTransaction")) = 1
        /\ Len(sent) >= 1 /\ ~sent[Len(sent)].accepted

(***************************************************************************)
(* C4. A public mutating operation called with no keyword arguments        *)
(* submits a transaction whose nonce is what getTransactionCount answered  *)
(* for the handler's own address, with gas config['DEFAULT_GAS'] and gas   *)
(* price config['GAS_PRICE'], encoding the operation and its arguments,    *)
(* signed with the handler's own key; and the value returned is the handle *)
(* the Gateway returned for that submission.                               *)
(***************************************************************************)
NoOverrides(p) ==
    /\ call[p].op \in PublicOps
    /\ call[p].private_key = None
    /\ call[p].gas = None
    /\ call[p].gas_price = None
    /\ call[p].nonce = None

C4_Defaults ==
    \A p \in Procs :
        (NoOverrides(p) /\ Has(p, "sendRawTransaction")) =>
            LET raw == Submitted(p) IN
            /\ Cardinality(EventsOf(p, "getTransactionCount")) = 1
            /\ The(p, "getTransactionCount").arg = to_checksum_address(default_privkey)
            /\ Some(raw.tx.nonce) = The(p, "getTransactionCount").reply
            /\ {"DEFAULT_GAS", "GAS_PRICE"} \subseteq DOMAIN config
            /\ raw.tx.gas = config["DEFAULT_GAS"]
            /\ raw.tx.gasPrice = config["GAS_PRICE"]
            /\ raw.tx.data = <<call[p].op, call[p].args>>
            /\ raw.sig = to_hex(default_privkey)
            /\ pc[p] = "done" =>
                   /\ result[p] = The(p, "sendRawTransaction").reply
                   /\ result[p] # None
                   /\ sent[Get(result[p])].handle = Get(result[p])
                   /\ sent[Get(result[p])].nonce = raw.tx.nonce
                   /\ sent[Get(result[p])].from = to_checksum_address(default_privkey)

C4_Witness ==
    \E p \in Procs :
        /\ NoOverrides(p) /\ pc[p] = "done"
        /\ call[p].op = "register_notary"
        /\ Submitted(p).tx.nonce = 1
        /\ Submitted(p).tx.gas = 200000
        /\ Submitted(p).tx.gasPrice = 1
        /\ result[p] = Some(2)

(***************************************************************************)
(* C5. Every transaction register_notary submits carries the value         *)
(* config['NOTARY_DEPOSIT']; every transaction deregister_notary,          *)
(* release_notary, add_header or submit_vote submits carries value 0; a    *)
(* value is only carried otherwise when the caller passes one (which only  *)
(* _send_transaction itself accepts).                                      *)
(***************************************************************************)
C5_Value ==
    \A p \in Procs :
        (IsSubmission(p) /\ Has(p, "sendRawTransaction")) =>
            LET value == Submitted(p).tx.value IN
            /\ call[p].op = "register_notary" =>
                   /\ "NOTARY_DEPOSIT" \in DOMAIN config
                   /\ value = config["NOTARY_DEPOSIT"]
            /\ call[p].op \in PublicOps \ {"register_notary"} => value = 0
            /\ call[p].op = "_send_transaction" => value = Get(call[p].value)

C5_Witness ==
    /\ \E p \in Procs :
        /\ call[p].op = "register_notary" /\ Has(p, "sendRawTransaction")
        /\ Submitted(p).tx.value = 1000
    /\ \E p \in Procs :
        /\ call[p].op = "add_header" /\ Has(p, "sendRawTransaction")
        /\ Submitted(p).tx.value = 0

(***************************************************************************)
(* C6 as claimed: on any mutating call a nonce the caller supplies is      *)
(* carried by the submitted transaction.  Whenever such a call is over and *)
(* nothing in the pipeline failed (config keys present, arguments          *)
(* encodable, signing succeeded), a transaction with that nonce was        *)
(* submitted, and no getTransactionCount was made.                         *)
(***************************************************************************)
MissingKey(p) ==
    \/ call[p].op = "register_notary" /\ "NOTARY_DEPOSIT" \notin DOMAIN config
    \/ call[p].gas = None /\ "DEFAULT_GAS" \notin DOMAIN config
    \/ call[p].gas_price = None /\ "GAS_PRICE" \notin DOMAIN config
SigningFailed(p) == Has(p, "signTransaction") /\ signed[p] = None
PipelineOk(p) ==
    /\ ~MissingKey(p)
    /\ CanEncode(call[p].func_name, call[p].args)
    /\ ~SigningFailed(p)

\* What the submitted transaction carries of the keyword arguments given.
Carried(p) ==
    Has(p, "sendRawTransaction") =>
        LET raw == Submitted(p) IN
        /\ call[p].gas # None => raw.tx.gas = Get(call[p].gas)
        /\ call[p].gas_price # None => raw.tx.gasPrice = Get(call[p].gas_price)
        /\ call[p].nonce # None => raw.tx.nonce = Get(call[p].nonce)
        /\ call[p].private_key # None =>
               /\ raw.sig = to_hex(Get(call[p].private_key))
               /\ Sender(raw) = to_checksum_address(Get(call[p].private_key))
NoLookup(p) == call[p].nonce # None => ~Has(p, "getTransactionCount")

C6_OverrideOnAnyMutatingCall ==
    \A p \in Procs :
        IsSubmission(p) =>
            /\ Carried(p)
            /\ NoLookup(p)
            /\ (Finished(p) /\ call[p].nonce # None /\ PipelineOk(p))
                   => Has(p, "sendRawTransaction")

(***************************************************************************)
(* C6 as amended: gas, gas_price and private_key given to any of the five  *)
(* public operations, and a nonce given to _send_transaction, are carried  *)
(* by the submitted transaction in place of the defaults, and a nonce      *)
(* given to _send_transaction causes no getTransactionCount; the five      *)
(* public operations take no nonce: a call that passes one ends with       *)
(* TypeError before anything is looked up, signed or submitted.            *)
(***************************************************************************)
C6_Overrides ==
    \A p \in Procs :
        IsSubmission(p) =>
            /\ Carried(p)
            /\ NoLookup(p)
            /\ (call[p].op = "_send_transaction" /\ Finished(p)
                    /\ call[p].nonce # None /\ PipelineOk(p))
                   => Has(p, "sendRawTransaction")
            /\ (call[p].op \in PublicOps /\ call[p].nonce # None)
                   => /\ pc[p] = "failed"
                      /\ err[p] = "TypeError"
                      /\ trace[p] = <<>>
                      /\ result[p] = None

C6_Witness ==
    \E p \in Procs :
        /\ call[p].op = "register_notary"
        /\ call[p].gas # None /\ call[p].gas_price # None
        /\ call[p].private_key # None
        /\ Has(p, "sendRawTransaction")
        /\ Submitted(p).tx.gas = 50000
        /\ Submitted(p).tx.gasPrice = 7
        /\ Sender(Submitted(p)) = to_checksum_address("k2")
        /\ \E i \in 1..Len(sent) : ~sent[i].derived /\ sent[i].nonce = 1

(***************************************************************************)
(* C7. A getter makes no getTransactionCount, buildTransaction,            *)
(* signTransaction or sendRawTransaction call and leaves the Gateway's     *)
(* transaction counts and received transactions as they were; with         *)
(* config['DEFAULT_GAS'] present it makes exactly one read-only call, of   *)
(* its contract function, with the context {sender: the handler's own      *)
(* address, gas: config['DEFAULT_GAS']}.                                   *)
(***************************************************************************)
C7_State ==
    \A p \in Procs :
        IsQuery(p) =>
            /\ \A i \in 1..Len(trace[p]) : trace[p][i].step = "call"
            /\ unsigned[p] = None /\ signed[p] = None
            /\ "DEFAULT_GAS" \in DOMAIN config =>
                   /\ Finished(p)
                   /\ Len(trace[p]) = 1
                   /\ trace[p][1].arg =
                          <<QueryFunctions[call[p].op],
                            [sender |-> to_canonical_address(default_privkey),
                             gas |-> config["DEFAULT_GAS"]]>>

C7_Frame ==
    \A p \in Procs :
        (pc[p] = "idle" /\ call'[p].op \in QueryNames)
        => UNCHANGED <<txCount, sent, config, frame, unsigned, signed>>

C7_QueriesHaveNoSideEffects == [](C7_State) /\ [][C7_Frame]_vars

C7_Witness ==
    \E p \in Procs :
        /\ call[p].op = "get_collation_chunk_root"
        /\ pc[p] = "done"
        /\ Len(trace[p]) = 1
        /\ Len(sent) = 1 /\ sent[1].accepted

(***************************************************************************)
(* C8. A mutating call that fails before the submission (TypeError,        *)
(* KeyError for a missing config key, a failed nonce lookup, an encoding   *)
(* failure, a signing failure) has sent nothing to the Gateway and returns *)
(* nothing; and each such failure does reach the caller: a call with a     *)
(* missing config key ends failed with KeyError before any outside call, a *)
(* call whose arguments cannot be encoded never gets to sign, and a call   *)
(* whose signing failed ends failed with SigningError.                     *)
(***************************************************************************)
PreSubmissionErrors ==
    {"TypeError", "KeyError", "RemoteCallError", "EncodingError", "SigningError"}
BadKeyword(p) == call[p].op \in PublicOps /\ call[p].nonce # None

C8_FailuresBeforeSubmission ==
    \A p \in Procs :
        IsSubmission(p) =>
            /\ err[p] \in PreSubmissionErrors =>
                   /\ pc[p] = "failed"
                   /\ ~Has(p, "sendRawTransaction")
                   /\ result[p] = None
            /\ (MissingKey(p) /\ ~BadKeyword(p)) =>
                   /\ pc[p] = "failed"
                   /\ err[p] = "KeyError"
                   /\ trace[p] = <<>>
            /\ ~CanEncode(call[p].func_name, call[p].args) =>
                   /\ ~Has(p, "signTransaction")
                   /\ ~Has(p, "sendRawTransaction")
                   /\ pc[p] # "done"
                   /\ Has(p, "buildTransaction") =>
                          pc[p] = "failed" /\ err[p] = "EncodingError"
            /\ SigningFailed(p) =>
                   /\ pc[p] = "failed"
                   /\ err[p] = "SigningError"
                   /\ ~Has(p, "sendRawTransaction")
            /\ pc[p] = "failed" => err[p] # NoError /\ result[p] = None
            /\ pc[p] # "failed" => err[p] = NoError

C8_Witness ==
    \E p \in Procs :
        /\ call[p].op = "add_header"
        /\ pc[p] = "failed" /\ err[p] = "EncodingError"
        /\ Has(p, "getTransactionCount")
        /\ ~Has(p, "sendRawTransaction")
        /\ result[p] = None

(***************************************************************************)
(* C9 as claimed: in a submission without explicit nonce the count is      *)
(* asked exactly once and nothing that can fail lies between that lookup   *)
(* and the signing: a call whose lookup was answered and that failed has   *)
(* at least attempted to sign.                                             *)
(***************************************************************************)
LookupAnswered(p) ==
    /\ Has(p, "getTransactionCount")
    /\ The(p, "getTransactionCount").reply # None

C9_LookupImmediatelyBeforeSigning ==
    \A p \in Procs :
        (DerivedNonce(p) /\ LookupAnswered(p)) =>
            /\ Cardinality(EventsOf(p, "getTransactionCount")) = 1
            /\ pc[p] = "failed" => Has(p, "signTransaction")

(***************************************************************************)
(* C9 as amended: in a submission without explicit nonce the count is      *)
(* asked exactly once, after the defaults are resolved; the calls made are *)
(* in the order getTransactionCount, buildTransaction (the encoding),      *)
(* signTransaction, sendRawTransaction, so that the only step between the  *)
(* lookup and the signing is the encoding, which makes no Gateway call but *)
(* can fail.  With an explicit nonce the order is the same without the     *)
(* lookup.                                                                 *)
(***************************************************************************)
PipelineOrder(p) ==
    IF call[p].nonce = None
    THEN <<"getTransactionCount", "buildTransaction", "signTransaction",
           "sendRawTransaction">>
    ELSE <<"buildTransaction", "signTransaction", "sendRawTransaction">>

C9_Order ==
    \A p \in Procs :
        IsSubmission(p) =>
            /\ IsPrefix(Steps(p), PipelineOrder(p))
            /\ pc[p] = "nonce" =>
                   /\ trace[p] = <<>>
                   /\ frame[p].gas # None
                   /\ frame[p].gas_price # None
                   /\ frame[p].private_key # None
            /\ (DerivedNonce(p) /\ pc[p] \in {"build", "sign", "send", "done"}) =>
                   Cardinality(EventsOf(p, "getTransactionCount")) = 1
            /\ pc[p] = "build" => ~Has(p, "buildTransaction")
            /\ pc[p] = "sign" => ~Has(p, "signTransaction")
            /\ pc[p] = "send" => ~Has(p, "sendRawTransaction")
            /\ pc[p] = "done" => Steps(p) = PipelineOrder(p)

C9_Witness ==
    \E p \in Procs :
        /\ DerivedNonce(p)
        /\ pc[p] = "done"
        /\ Steps(p) = <<"getTransactionCount", "buildTransaction",
                        "signTransaction", "sendRawTransaction">>

(***************************************************************************)
(* C10. Without explicit nonce, getTransactionCount is asked for the       *)
(* address of the key that signs (the private_key argument when given,     *)
(* else the handler's own key), the nonce taken is the count the Gateway   *)
(* holds for that account at that moment, and the submitted transaction    *)
(* is from that account with that nonce.                                   *)
(***************************************************************************)
C10_State ==
    \A p \in Procs :
        (IsSubmission(p) /\ Has(p, "getTransactionCount")) =>
            LET lookup == The(p, "getTransactionCount") IN
            /\ call[p].nonce = None
            /\ lookup.arg = to_checksum_address(SigningKey(p))
            /\ Has(p, "signTransaction") =>
                   The(p, "signTransaction").arg = to_hex(SigningKey(p))
            /\ Has(p, "sendRawTransaction") =>
                   /\ Sender(Submitted(p)) = lookup.arg
                   /\ Some(Submitted(p).tx.nonce) = lookup.reply

C10_Step ==
    \A p \in Procs :
        (pc[p] = "nonce" /\ pc'[p] = "build" /\ call[p].nonce = None)
        => frame'[p].nonce = Some(txCount[to_checksum_address(SigningKey(p))])

C10_LookupForSigningAccount == [](C10_State) /\ [][C10_Step]_vars

C10_Witness ==
    \E p \in Procs :
        /\ DerivedNonce(p)
        /\ call[p].private_key = Some("k2")
        /\ Has(p, "sendRawTransaction")
        /\ Sender(Submitted(p)) = to_checksum_address("k2")
        /\ Submitted(p).tx.nonce = 0
        /\ txCount[to_checksum_address(default_privkey)] = 1

====
